---- MODULE Spec2Model ----
(***************************************************************************)
(* Model of src/main.py (Color Vision Simulation Viewer): the batch        *)
(* pipeline that runs when "Process PDF Files" is pressed (lines 147-309)  *)
(* and the pure helpers sanitize_filename, the scale resolution and the    *)
(* achromatopsia branch of convert_image.                                  *)
(*                                                                         *)
(* The script is one sequential thread.  The pipeline is cut into one      *)
(* action per loop iteration / per archive write, so that the intermediate *)
(* states of the archive and of the progress counter are visible.          *)
(*                                                                         *)
(* What the external PDF library does with the uploaded bytes is an input: *)
(* it is drawn when the bytes are first opened (the counting pass) and is  *)
(* then fixed for the run, since both passes open the same bytes.          *)
(***************************************************************************)
EXTENDS Integers, Sequences, FiniteSets, TLC

(* ---------------- program constants (scaled down) ---------------------- *)
\* src/main.py:23 has MAX_FILES = 200; scaled to 2 so that the cap is reached.
MAX_FILES == 2
\* src/main.py:24 has MAX_PAGES_PER_FILE = 200; scaled to 2.
MAX_PAGES_PER_FILE == 2

\* src/main.py:25 has MAX_PIXELS_PER_PAGE = 1000_000_000; scaled to 9 so that
\* small pages exceed it.
MAX_PIXELS_PER_PAGE == 9
\* Scales are counted in tenths: MIN_SCALE = 0.1 (line 29), MAX_SCALE = 1.0 (line 30).
Tenths == 10
MIN_SCALE == 1
MAX_SCALE == 10

(* ---------------- bounds of the model ---------------------------------- *)
\* Largest number of uploaded files (above MAX_FILES, so files are dropped).
MaxDocs == 4
\* Largest doc.page_count (above MAX_PAGES_PER_FILE, so pages are dropped).
MaxPageCount == 3
\* Largest number of page failures (exceptions in the page loop) in one run.
MaxPageFailures == 1
\* Longest file name handed to sanitize_filename.
MaxNameLen == 4
\* Largest page width and height (in points) handed to the scale resolution.
MaxDim == 40
\* Largest slider value (in tenths) handed to clamp_scale: above MAX_SCALE.
MaxScaleIn == 12
\* Channel values of a pixel: 0..MaxChan and 255-MaxChan..255.
MaxChan == 3

(* ---------------- characters and strings ------------------------------- *)
\* A file name is a sequence of one-character strings.
LowerSeq == <<"a","b","c","d","e","f","g","h","i","j","k","l","m",
              "n","o","p","q","r","s","t","u","v","w","x","y","z">>
UpperSeq == <<"A","B","C","D","E","F","G","H","I","J","K","L","M",
              "N","O","P","Q","R","S","T","U","V","W","X","Y","Z">>
Digits == {"0","1","2","3","4","5","6","7","8","9"}
Range(s) == {s[k] : k \in 1..Len(s)}

\* The character class [A-Za-z0-9._-] of the regular expression at line 103.
IsAllowedChar(c) == c \in Range(LowerSeq) \cup Range(UpperSeq) \cup Digits \cup {".", "_", "-"}

\* str.lower() on one character (ASCII letters).
LowerChar(c) ==
    IF c \in Range(UpperSeq)
    THEN LowerSeq[CHOOSE k \in 1..Len(UpperSeq) : UpperSeq[k] = c]
    ELSE c

\* str.lower()
Lower(s) == [k \in 1..Len(s) |-> LowerChar(s[k])]

\* str.endswith(suf)
EndsWith(s, suf) ==
    /\ Len(s) >= Len(suf)
    /\ SubSeq(s, Len(s) - Len(suf) + 1, Len(s)) = suf

\* Index of the last occurrence of c in s, 0 when there is none (str.rfind + 1).
LastIndexOf(s, c) ==
    IF \E k \in 1..Len(s) : s[k] = c
    THEN CHOOSE k \in 1..Len(s) : s[k] = c /\ \A j \in (k+1)..Len(s) : s[j] # c
    ELSE 0

\* os.path.basename (posixpath): what follows the last "/".
Basename(s) == SubSeq(s, LastIndexOf(s, "/") + 1, Len(s))

\* os.path.splitext(p)[1] (genericpath._splitext): the text from the last dot of
\* the last path component, provided a non-dot character precedes that dot in
\* the component; otherwise empty.
SplitExt(s) ==
    LET sep == LastIndexOf(s, "/")
        dot == LastIndexOf(s, ".")
    IN  IF dot > sep /\ \E k \in (sep+1)..(dot-1) : s[k] # "."
        THEN SubSeq(s, dot, Len(s))
        ELSE <<>>

DotPdf == <<".", "p", "d", "f">>

\* ALLOWED_EXT = {".pdf"}
ALLOWED_EXT == {DotPdf}

\* Lines 184-185: ext = os.path.splitext(name or "")[1].lower(); ext in ALLOWED_EXT
ExtAllowed(name) == Lower(SplitExt(name)) \in ALLOWED_EXT

\* re.sub(r"[^A-Za-z0-9._-]+", "_", base): every maximal run of characters
\* outside the class becomes one "_".
RECURSIVE ReSubFrom(_, _)
ReSubFrom(s, k) ==
    IF k > Len(s) THEN <<>>
    ELSE IF IsAllowedChar(s[k]) THEN <<s[k]>> \o ReSubFrom(s, k + 1)
    ELSE IF k > 1 /\ ~IsAllowedChar(s[k-1]) THEN ReSubFrom(s, k + 1)
    ELSE <<"_">> \o ReSubFrom(s, k + 1)

\* A substitution that leaves the text as it is.
ReSubIdentity(s) == s

ReSub(s) == ReSubFrom(s, 1)

\* sanitize_filename (lines 100-106).
sanitize_filename(name) ==
    LET base0 == Basename(IF name = <<>> THEN <<"f","i","l","e">> ELSE name)
        base1 == ReSub(base0)
    IN  IF ~EndsWith(Lower(base1), DotPdf) THEN base1 \o DotPdf ELSE base1

(* ---------------- scale resolution ------------------------------------- *)
\* A scale is kept exactly, as the fraction num/den that is its square: the
\* reduced scale of line 225 is scale * sqrt(MAX_PIXELS_PER_PAGE / (est_w*est_h)),
\* whose square is rational.  Arithmetic is that of the reals; the rounding of
\* the floating-point operations is not modelled.
ScaleOfTenths(t) == [num |-> t * t, den |-> Tenths * Tenths]
ScaleLeq(a, b) == a.num * b.den <= b.num * a.den
ScaleMin(a, b) == IF ScaleLeq(a, b) THEN a ELSE b
ScaleMax(a, b) == IF ScaleLeq(b, a) THEN a ELSE b

\* int(x * scale) for a length x >= 0: the floor of x * sqrt(num/den).
FloorMul(x, sc) ==
    LET q == (x * x * sc.num) \div sc.den
    IN  CHOOSE r \in 0..(q + 1) : r * r <= q /\ (r + 1) * (r + 1) > q

\* The same resolution computed from the unscaled page area w*h instead of
\* the estimated pixel count.
ResolveScaleRawArea(w, h, scale) ==
    LET req == ScaleOfTenths(scale)
    IN  IF w * h > MAX_PIXELS_PER_PAGE
        THEN LET adj == [num |-> req.num * MAX_PIXELS_PER_PAGE,
                         den |-> req.den * (w * h)]
             IN  ScaleMax(ScaleOfTenths(MIN_SCALE), ScaleMin(adj, req))
        ELSE req

\* clamp_scale without its clamping.
clamp_scale_identity(x) == x

\* clamp_scale (lines 108-113) on a number of tenths.
clamp_scale(x) ==
    LET inner == IF MAX_SCALE <= x THEN MAX_SCALE ELSE x
    IN  IF MIN_SCALE >= inner THEN MIN_SCALE ELSE inner

\* Lines 220-228: the scale handed to render_page_to_image for a page of
\* width w and height h, with `scale` the clamped slider value (in tenths).
ResolveScale(w, h, scale) ==
    LET req == ScaleOfTenths(scale)
        est_w == IF FloorMul(w, req) >= 1 THEN FloorMul(w, req) ELSE 1
        est_h == IF FloorMul(h, req) >= 1 THEN FloorMul(h, req) ELSE 1
    IN  IF est_w * est_h > MAX_PIXELS_PER_PAGE
        THEN LET adj == [num |-> req.num * MAX_PIXELS_PER_PAGE,
                         den |-> req.den * (est_w * est_h)]
             IN  ScaleMax(ScaleOfTenths(MIN_SCALE), ScaleMin(adj, req))
        ELSE req

(* ---------------- convert_image, mode 'Acromat' ------------------------ *)
\* Lines 92-94 on one pixel: np.mean over the three channels (a float64), cast
\* to uint8 by astype, which drops the fraction; repeated on the three channels.
AchromatPixel(px) ==
    LET gray == (px[1] + px[2] + px[3]) \div 3
    IN  <<gray, gray, gray>>

(* ---------------- the batch pipeline: state ----------------------------- *)
VARIABLES
    submitted,       \* history: the files as the uploader returned them (line 127),
                     \* recorded only under SpecAdmission
    uploaded_files,  \* uploaded_files (lines 127, 154): a sequence of file names
    docs,            \* per kept file, what the PDF library finds in its bytes
    pc,              \* position of the script
    cur,             \* index of uf / uploaded_file in the running for loop
    page_count,      \* page_count of the open document (line 206)
    page_num,        \* page_num of the page loop (0-based, line 215)
    variant,         \* entries already written for the current page (0..4)
    total_steps,     \* total_steps
    step,            \* step
    outzip,          \* the entries written to outzip, in order
    report,          \* the messages shown (st.warning / st.info / st.error), in order
    handles,         \* every document handle fitz.open returned, with its close() calls
    calls,           \* the load_page / get_pixmap calls made, in order
    download,        \* whether st.download_button offered the archive (line 302)
    san_in, san_out, \* sanitize_filename: argument and result
    sc_in, sc_out,   \* scale resolution: page size and scale, and the result
    px_in, px_out    \* convert_image(.., 'Acromat'): one pixel in, one pixel out

vars == <<submitted, uploaded_files, docs, pc, cur, page_count, page_num, variant,
          total_steps, step, outzip, report, handles, calls, download,
          san_in, san_out, sc_in, sc_out, px_in, px_out>>

pipeVars == <<uploaded_files, docs, cur, page_count, page_num, variant,
              total_steps, step, outzip, report, handles, calls, download>>
sanVars == <<san_in, san_out>>
scVars == <<sc_in, sc_out>>
pxVars == <<px_in, px_out>>
\* What no step of the pipeline changes: the history and the helpers' variables.
pureVars == <<submitted, san_in, san_out, sc_in, sc_out, px_in, px_out>>

Min(a, b) == IF a <= b THEN a ELSE b
Max(a, b) == IF a >= b THEN a ELSE b

\* File names the uploader may hand over: a plain one, one with a directory
\* part that sanitizes to the same name, and one with another extension.
PlainName == <<"a", ".", "p", "d", "f">>
TraversalName == <<".", ".", "/", "a", ".", "p", "d", "f">>
TextName == <<"a", ".", "t", "x", "t">>
Names == {PlainName, TraversalName, TextName}

\* What the bytes of a file turn out to be when fitz opens them:
\*   unreadable  fitz.open raises
\*   encrypted   doc.needs_password() is true
\*   broken      fitz.open succeeds, needs_password() / page_count raises
\*   ok          a readable document with `pages` pages
Unknown == [kind |-> "unknown", pages |-> 0]
Contents ==
    [kind : {"unreadable", "encrypted", "broken"}, pages : {0}]
        \cup [kind : {"ok"}, pages : 0..MaxPageCount]

\* The five outputs of a page in the order of lines 237-278, by the directory
\* of the entry.
\* The same directories with two writes exchanged.
VariantDirsSwapped == <<"common", "deuteranopia", "protanopia", "tritanopia", "achromat">>

VariantDirs == <<"common", "protanopia", "deuteranopia", "tritanopia", "achromat">>

\* Lines 244-278: the mode strings handed to convert_image, in the order of
\* the writes; the first write (line 241) converts nothing.
\* The same modes with the achromatic one spelled as its directory is.
VariantModesRespelled == <<"", "protanopia", "deuteranopia", "tritanopia", "achromat">>

VariantModes == <<"", "protanopia", "deuteranopia", "tritanopia", "Acromat">>

\* Lines 70-83: the branch of simulate_deficiency a deficiency name selects;
\* the final else returns the image unchanged.
SimulateBranch(deficiency) ==
    IF deficiency \in {"protanopia", "deuteranopia", "tritanopia"}
    THEN deficiency ELSE "passthrough"

\* Lines 90-97: convert_image takes the mean when mode == 'Acromat' and calls
\* simulate_deficiency(img_array, mode) otherwise.
ConvertBranch(mode) ==
    IF mode = "Acromat" THEN "mean" ELSE SimulateBranch(mode)

\* str(n) of a natural number n, as the f-string formats page_num+1.
DigitSeq == <<"0", "1", "2", "3", "4", "5", "6", "7", "8", "9">>
RECURSIVE Decimal(_)
Decimal(n) ==
    IF n < 10 THEN <<DigitSeq[n + 1]>>
    ELSE Decimal(n \div 10) \o <<DigitSeq[(n % 10) + 1]>>

\* The characters of the directory literals of lines 241-277.
DirChars(d) ==
    CASE d = "common" -> <<"c", "o", "m", "m", "o", "n">>
      [] d = "protanopia" -> <<"p", "r", "o", "t", "a", "n", "o", "p", "i", "a">>
      [] d = "deuteranopia" -> <<"d", "e", "u", "t", "e", "r", "a", "n", "o", "p", "i", "a">>
      [] d = "tritanopia" -> <<"t", "r", "i", "t", "a", "n", "o", "p", "i", "a">>
      [] d = "achromat" -> <<"a", "c", "h", "r", "o", "m", "a", "t">>

\* Lines 241-277: the member name f"{dir}/{safe_pdf_name}_p{page_num+1}.png".
\* The member name with a directory per document: {dir}/{safe_pdf_name}/p{n}.png
EntryPathNested(dir, safe_pdf_name, pn) ==
    DirChars(dir) \o <<"/">> \o safe_pdf_name \o <<"/", "p">> \o Decimal(pn + 1)
        \o <<".", "p", "n", "g">>

EntryPath(dir, safe_pdf_name, pn) ==
    DirChars(dir) \o <<"/">> \o safe_pdf_name \o <<"_", "p">> \o Decimal(pn + 1)
        \o <<".", "p", "n", "g">>

\* outzip.writestr(f"{dir}/{safe_pdf_name}_p{page_num+1}.png", ...).  `file`
\* and `via` are not part of the archive: they record which upload the entry
\* came from and which branch produced its image.
Entry(k, file, pn) ==
    [dir |-> VariantDirs[k], name |-> sanitize_filename(uploaded_files[file]),
     page |-> pn + 1, file |-> file,
     via |-> IF k = 1 THEN "render" ELSE ConvertBranch(VariantModes[k])]

\* ZipFile.writestr adds a member and leaves the earlier members alone, a
\* member of the same name included.
WriteStrReplace(zip, e) ==
    IF \E k \in DOMAIN zip :
           zip[k].dir = e.dir /\ zip[k].name = e.name /\ zip[k].page = e.page
    THEN [k \in DOMAIN zip |->
             IF zip[k].dir = e.dir /\ zip[k].name = e.name /\ zip[k].page = e.page
             THEN e ELSE zip[k]]
    ELSE Append(zip, e)

WriteStr(zip, e) == Append(zip, e)

\* Lines 242-278: step += 1 after the k-th write of a page.
StepIncTransformed(s, k) == IF k = 1 THEN s ELSE s + 1

StepInc(s, k) == s + 1

\* Lines 187, 198, 204: `continue` in the processing loop: the next file.
SkipBreak(i, n) == n + 1

SkipNext(i, n) == i + 1

\* Line 206: page_count = min(doc.page_count, MAX_PAGES_PER_FILE)
PageCapNone(pages) == pages

PageCap(pages) == Min(pages, MAX_PAGES_PER_FILE)

Signal(kind, file, page) == [kind |-> kind, file |-> file, page |-> page]

\* fitz.open(...) returned a handle; doc.close() on the handle opened last.
Opened(hs, file, pass) == Append(hs, [file |-> file, pass |-> pass, closes |-> 0])
Closed(hs) == [hs EXCEPT ![Len(hs)].closes = @ + 1]

PageFailures == Cardinality({k \in DOMAIN report : report[k].kind = "page_failed"})

\* Lines 152-154: uploaded_files[:MAX_FILES] when there are more than MAX_FILES.
TruncateLast(files) ==
    IF Len(files) > MAX_FILES
    THEN SubSeq(files, Len(files) - MAX_FILES + 1, Len(files)) ELSE files

Truncate(files) ==
    IF Len(files) > MAX_FILES THEN SubSeq(files, 1, MAX_FILES) ELSE files

\* Line 169: min(doc.page_count, MAX_PAGES_PER_FILE) * 5
DocStepsUncapped(pages) == pages * 5

DocStepsPerPage(pages) == Min(pages, MAX_PAGES_PER_FILE)

DocSteps(pages) == Min(pages, MAX_PAGES_PER_FILE) * 5

\* Line 174: if total_steps == 0
NeverEmpty(total) == FALSE

BatchEmpty(total) == total = 0

\* Lines 284-286: the page's except clause ends in `continue`: the next page.
PageFailBreak(pn, pcount) == pcount

PageFailNext(pn, pcount) == pn + 1

(* ---------------- the batch pipeline: positions ------------------------ *)
\* Line 147: the script is at `if process_btn:` with the button pressed.
AtStart ==
    /\ pc = "start"

\* Line 162: the counting loop has a file left.
InCountingLoop ==
    /\ pc = "count"
    /\ cur <= Len(uploaded_files)

\* Line 174: the counting loop is exhausted.
CountingLoopOver ==
    /\ pc = "count"
    /\ cur > Len(uploaded_files)

\* Line 182: the processing loop has a file left.
InProcessingLoop ==
    /\ pc = "main"
    /\ cur <= Len(uploaded_files)

\* Line 215: the page loop has a page left and none of its entries is written.
AtPageStart ==
    /\ pc = "page"
    /\ page_num < page_count
    /\ variant = 0

\* Lines 244-278: between two archive writes of a page.
InPageVariants ==
    /\ pc = "page"
    /\ variant \in 1..4

\* Line 215: the page loop is exhausted.
PageLoopOver ==
    /\ pc = "page"
    /\ page_num >= page_count
    /\ variant = 0

\* Line 182: the processing loop is exhausted.
ProcessingLoopOver ==
    /\ pc = "main"
    /\ cur > Len(uploaded_files)

\* The script has a statement to run: one of the positions above.
CanStep ==
    \/ AtStart
    \/ InCountingLoop
    \/ CountingLoopOver
    \/ InProcessingLoop
    \/ AtPageStart
    \/ InPageVariants
    \/ PageLoopOver
    \/ ProcessingLoopOver

(* ---------------- the batch pipeline: actions -------------------------- *)
PipeInit ==
    /\ uploaded_files \in UNION {[1..n -> Names] : n \in 0..MaxDocs}
    /\ docs = <<>>
    /\ pc = "start"
    /\ cur = 0
    /\ page_count = 0
    /\ page_num = 0
    /\ variant = 0
    /\ total_steps = 0
    /\ step = 0
    /\ outzip = <<>>
    /\ report = <<>>
    /\ handles = <<>>
    /\ calls = <<>>
    /\ download = FALSE

\* Lines 147-160: the button was pressed.
Start ==
    /\ AtStart
    /\ IF uploaded_files = <<>>
       THEN /\ report' = Append(report, Signal("no_files", 0, 0))
            /\ pc' = "stopped"
            /\ UNCHANGED <<uploaded_files, docs, cur>>
       ELSE /\ report' = IF Len(uploaded_files) > MAX_FILES
                         THEN Append(report, Signal("too_many_files", 0, 0))
                         ELSE report
            /\ uploaded_files' = Truncate(uploaded_files)
            /\ docs' = [k \in 1..Len(uploaded_files') |-> Unknown]
            /\ pc' = "count"
            /\ cur' = 1
    /\ total_steps' = 0
    /\ UNCHANGED <<page_count, page_num, variant, step, outzip, handles,
                   calls, download>>
    /\ UNCHANGED pureVars

\* Lines 162-173: one iteration of the counting pass.
CountDoc ==
    /\ InCountingLoop
    /\ \E c \in Contents :
        /\ docs' = [docs EXCEPT ![cur] = c]
        /\ CASE c.kind = "unreadable" ->
                    \* fitz.open raises: except, continue
                    /\ UNCHANGED <<handles, total_steps>>
             [] c.kind = "encrypted" ->
                    \* needs_password(): doc.close(); continue
                    /\ handles' = Closed(Opened(handles, cur, "count"))
                    /\ UNCHANGED total_steps
             [] c.kind = "broken" ->
                    \* needs_password() or page_count raises: except, continue
                    /\ handles' = Opened(handles, cur, "count")
                    /\ UNCHANGED total_steps
             [] c.kind = "ok" ->
                    /\ total_steps' = total_steps + DocSteps(c.pages)
                    /\ handles' = Closed(Opened(handles, cur, "count"))
    /\ cur' = cur + 1
    /\ UNCHANGED <<uploaded_files, pc, page_count, page_num, variant, step,
                   outzip, report, calls, download>>
    /\ UNCHANGED pureVars

\* Lines 174-180: the end of the counting pass.
CountEnd ==
    /\ CountingLoopOver
    /\ IF BatchEmpty(total_steps)
       THEN /\ report' = Append(report, Signal("batch_empty", 0, 0))
            /\ pc' = "stopped"
            /\ UNCHANGED cur
       ELSE /\ pc' = "main"
            /\ cur' = 1
            /\ UNCHANGED report
    /\ step' = 0
    /\ UNCHANGED <<uploaded_files, docs, page_count, page_num, variant,
                   total_steps, outzip, handles, calls, download>>
    /\ UNCHANGED pureVars

\* Lines 182-213 (and 288-294 for a document that never reaches its page
\* loop): the head of one iteration of the processing loop.
AdmitDoc ==
    /\ InProcessingLoop
    /\ LET c == docs[cur] IN
       IF ~ExtAllowed(uploaded_files[cur])
       THEN /\ report' = Append(report, Signal("bad_ext", cur, 0))
            /\ cur' = SkipNext(cur, Len(uploaded_files))
            /\ UNCHANGED <<handles, pc, page_count, page_num>>
       ELSE CASE c.kind = "unreadable" ->
                    /\ report' = Append(report, Signal("unreadable", cur, 0))
                    /\ cur' = SkipNext(cur, Len(uploaded_files))
                    /\ UNCHANGED <<handles, pc, page_count, page_num>>
              [] c.kind = "encrypted" ->
                    \* line 203 closes, `continue` runs the finally: line 292 closes
                    /\ report' = Append(report, Signal("encrypted", cur, 0))
                    /\ handles' = Closed(Closed(Opened(handles, cur, "main")))
                    /\ cur' = SkipNext(cur, Len(uploaded_files))
                    /\ UNCHANGED <<pc, page_count, page_num>>
              [] c.kind = "broken" ->
                    \* the outer except (line 288), then the finally
                    /\ report' = Append(report, Signal("doc_failed", cur, 0))
                    /\ handles' = Closed(Opened(handles, cur, "main"))
                    /\ cur' = cur + 1
                    /\ UNCHANGED <<pc, page_count, page_num>>
              [] c.kind = "ok" ->
                    /\ handles' = Opened(handles, cur, "main")
                    /\ page_count' = PageCap(c.pages)
                    /\ page_num' = 0
                    /\ pc' = "page"
                    /\ UNCHANGED <<report, cur>>
    /\ variant' = 0
    /\ UNCHANGED <<uploaded_files, docs, total_steps, step, outzip, calls,
                   download>>
    /\ UNCHANGED pureVars

\* Lines 216-242: load the page, render it, write the untransformed image.
RenderPage ==
    /\ AtPageStart
    /\ \/ /\ calls' = calls \o <<[op |-> "load_page", file |-> cur, page |-> page_num],
                                 [op |-> "get_pixmap", file |-> cur, page |-> page_num]>>
          /\ outzip' = WriteStr(outzip, Entry(1, cur, page_num))
          /\ step' = StepInc(step, 1)
          /\ variant' = 1
          /\ UNCHANGED <<report, page_num>>
       \/ \* doc.load_page raises
          /\ PageFailures < MaxPageFailures
          /\ calls' = Append(calls, [op |-> "load_page", file |-> cur, page |-> page_num])
          /\ report' = Append(report, Signal("page_failed", cur, page_num + 1))
          /\ page_num' = PageFailNext(page_num, page_count)
          /\ UNCHANGED <<outzip, step, variant>>
       \/ \* render_page_to_image raises
          /\ PageFailures < MaxPageFailures
          /\ calls' = calls \o <<[op |-> "load_page", file |-> cur, page |-> page_num],
                                 [op |-> "get_pixmap", file |-> cur, page |-> page_num]>>
          /\ report' = Append(report, Signal("page_failed", cur, page_num + 1))
          /\ page_num' = PageFailNext(page_num, page_count)
          /\ UNCHANGED <<outzip, step, variant>>
    /\ UNCHANGED <<uploaded_files, docs, pc, cur, page_count, total_steps,
                   handles, download>>
    /\ UNCHANGED pureVars

\* Lines 244-278: one of the four transformed images: convert and write.
ConvertWrite ==
    /\ InPageVariants
    /\ calls' = Append(calls, [op |-> "convert_image", file |-> cur,
                               page |-> page_num,
                               mode |-> VariantModes[variant + 1]])
    /\ \/ /\ outzip' = WriteStr(outzip, Entry(variant + 1, cur, page_num))
          /\ step' = StepInc(step, variant + 1)
          /\ IF variant + 1 = 5
             THEN variant' = 0 /\ page_num' = page_num + 1
             ELSE variant' = variant + 1 /\ UNCHANGED page_num
          /\ UNCHANGED report
       \/ \* convert_image (or the PNG encoding) raises
          /\ PageFailures < MaxPageFailures
          /\ report' = Append(report, Signal("page_failed", cur, page_num + 1))
          /\ page_num' = PageFailNext(page_num, page_count)
          /\ variant' = 0
          /\ UNCHANGED <<outzip, step>>
    /\ UNCHANGED <<uploaded_files, docs, pc, cur, page_count, total_steps,
                   handles, download>>
    /\ UNCHANGED pureVars

\* Lines 290-294: the page loop is over: the finally closes the document.
CloseDoc ==
    /\ PageLoopOver
    /\ handles' = Closed(handles)
    /\ cur' = cur + 1
    /\ pc' = "main"
    /\ UNCHANGED <<uploaded_files, docs, page_count, page_num, variant,
                   total_steps, step, outzip, report, calls, download>>
    /\ UNCHANGED pureVars

\* Lines 296-309: the processing loop is over: the archive is offered.
Finish ==
    /\ ProcessingLoopOver
    /\ download' = TRUE
    /\ pc' = "done"
    /\ UNCHANGED <<uploaded_files, docs, cur, page_count, page_num, variant,
                   total_steps, step, outzip, report, handles, calls>>
    /\ UNCHANGED pureVars

Next ==
    \/ Start
    \/ CountDoc
    \/ CountEnd
    \/ AdmitDoc
    \/ RenderPage
    \/ ConvertWrite
    \/ CloseDoc
    \/ Finish

Init ==
    /\ PipeInit
    /\ submitted = <<>>
    /\ san_in = <<>> /\ san_out = <<>>
    /\ sc_in = <<>> /\ sc_out = <<>>
    /\ px_in = <<>> /\ px_out = <<>>

Spec == Init /\ [][Next]_vars

\* The run up to the end of the counting pass, with the uploaded list recorded.
InitAdmission ==
    /\ PipeInit
    /\ submitted = uploaded_files
    /\ san_in = <<>> /\ san_out = <<>>
    /\ sc_in = <<>> /\ sc_out = <<>>
    /\ px_in = <<>> /\ px_out = <<>>

NextAdmission ==
    \/ Start
    \/ CountDoc
    \/ CountEnd

SpecAdmission == InitAdmission /\ [][NextAdmission]_vars

(* ---------------- the pure functions: one call each -------------------- *)
\* The pipeline is idle while a helper is exercised on its own.
PipeIdle ==
    /\ submitted = <<>> /\ uploaded_files = <<>> /\ docs = <<>>
    /\ cur = 0 /\ page_count = 0 /\ page_num = 0 /\ variant = 0
    /\ total_steps = 0 /\ step = 0
    /\ outzip = <<>> /\ report = <<>> /\ handles = <<>> /\ calls = <<>>
    /\ download = FALSE

\* Characters of the names tried: a letter, the letters of "pdf", an upper-case
\* letter, the dot, the path separator, and two characters outside the class
\* [A-Za-z0-9._-]: the backslash, which os.path.basename leaves alone, and a
\* space (a control or null character is treated alike).
SanAlphabet == {"a", "p", "d", "f", "P", ".", "/", "\\", " "}

InitSanitize ==
    /\ PipeIdle
    /\ pc = "call"
    /\ san_in \in UNION {[1..n -> SanAlphabet] : n \in 0..MaxNameLen}
    /\ san_out = <<>>
    /\ sc_in = <<>> /\ sc_out = <<>>
    /\ px_in = <<>> /\ px_out = <<>>

CallSanitize ==
    /\ pc = "call"
    /\ san_out' = sanitize_filename(san_in)
    /\ pc' = "return"
    /\ UNCHANGED <<pipeVars, submitted, san_in, scVars, pxVars>>

NextSanitize ==
    \/ CallSanitize

SpecSanitize == InitSanitize /\ [][NextSanitize]_vars

InitScale ==
    /\ PipeIdle
    /\ pc = "call"
    /\ sc_in \in [w : 1..MaxDim, h : 1..MaxDim, scale_in : 0..MaxScaleIn]
    /\ sc_out = <<>>
    /\ san_in = <<>> /\ san_out = <<>>
    /\ px_in = <<>> /\ px_out = <<>>

\* Line 129 (scale = clamp_scale(scale_in)) and lines 220-228 for one page.
CallResolveScale ==
    /\ pc = "call"
    /\ sc_out' = ResolveScale(sc_in.w, sc_in.h, clamp_scale(sc_in.scale_in))
    /\ pc' = "return"
    /\ UNCHANGED <<pipeVars, submitted, sc_in, sanVars, pxVars>>

NextScale ==
    \/ CallResolveScale

SpecScale == InitScale /\ [][NextScale]_vars

Chan == (0..MaxChan) \cup ((255 - MaxChan)..255)

InitAchromat ==
    /\ PipeIdle
    /\ pc = "call"
    /\ px_in \in [1..3 -> Chan]
    /\ px_out = <<>>
    /\ san_in = <<>> /\ san_out = <<>>
    /\ sc_in = <<>> /\ sc_out = <<>>

\* convert_image(img, 'Acromat') on an image of one pixel.
CallAchromat ==
    /\ pc = "call"
    /\ px_out' = AchromatPixel(px_in)
    /\ pc' = "return"
    /\ UNCHANGED <<pipeVars, submitted, px_in, sanVars, scVars>>

NextAchromat ==
    \/ CallAchromat

SpecAchromat == InitAchromat /\ [][NextAchromat]_vars

(* ======================= properties of the pipeline ==================== *)
Terminal == pc \in {"done", "stopped"}

\* The documents the processing loop admits to its page loop, and their usable pages.
Admitted(f) == ExtAllowed(uploaded_files[f]) /\ docs[f].kind = "ok"
Usable(f) == IF docs[f].pages <= MAX_PAGES_PER_FILE THEN docs[f].pages ELSE MAX_PAGES_PER_FILE
PageFailed(f, p) == \E k \in DOMAIN report : report[k] = Signal("page_failed", f, p)
AnyPageFailed == \E k \in DOMAIN report : report[k].kind = "page_failed"
Rasterized(f, p) ==
    \E k \in DOMAIN calls : calls[k] = [op |-> "get_pixmap", file |-> f, page |-> p - 1]
EntriesOf(f, p) == {k \in DOMAIN outzip : outzip[k].file = f /\ outzip[k].page = p}

\* The order of the variants as the specification states it.
StatedOrder == <<"common", "protanopia", "deuteranopia", "tritanopia", "achromat">>
OrderIdx(d) == CHOOSE k \in 1..5 : StatedOrder[k] = d
HasFive(f, p) ==
    /\ Cardinality(EntriesOf(f, p)) = 5
    /\ \A d \in 1..5 : \E k \in EntriesOf(f, p) : outzip[k].dir = StatedOrder[d]

(* C1: every document handle that is opened, in the counting pass or in the  *)
(* processing pass, is closed exactly once on every exit path: close() is    *)
(* never called twice on a handle, and when the run has ended no handle is  *)
(* left open.                                                                *)
C1_ClosedExactlyOnce ==
    /\ \A k \in DOMAIN handles : handles[k].closes <= 1
    /\ Terminal => \A k \in DOMAIN handles : handles[k].closes = 1

(* C2: a page whose rasterization or transform raises aborts only itself:   *)
(* when the run is over, every other usable page of every admitted document *)
(* was rasterized and has its five entries; a page failure never stops the  *)
(* batch, which goes on until the archive is offered.                        *)
C2_FailureIsolated ==
    /\ pc = "done" =>
          /\ download
          /\ \A f \in DOMAIN uploaded_files : \A p \in 1..MaxPageCount :
                (Admitted(f) /\ p <= Usable(f) /\ ~PageFailed(f, p))
                    => (Rasterized(f, p) /\ HasFive(f, p))
    /\ AnyPageFailed => pc # "stopped"
    /\ (AnyPageFailed /\ pc # "done") => CanStep

\* A first page failed, the second page of the same document and a page of
\* a later document have their five entries, and the archive is offered.
C2_Witness ==
    /\ pc = "done" /\ download
    /\ PageFailed(1, 1)
    /\ Admitted(1) /\ Usable(1) = 2 /\ HasFive(1, 2)
    /\ Len(uploaded_files) = 2 /\ Admitted(2) /\ Usable(2) >= 1 /\ HasFive(2, 1)

RECURSIVE SumUsable(_)
SumUsable(n) == IF n = 0 THEN 0 ELSE Usable(n) + SumUsable(n - 1)
AllGood == (\A f \in DOMAIN uploaded_files : Admitted(f)) /\ ~AnyPageFailed

(* C4: when every document is readable, unencrypted and accepted and no     *)
(* page fails, the finished batch has exactly 5 x (sum of min(page_count,   *)
(* max_pages_per_file)) entries, total_steps is that number and the final   *)
(* completed_steps equals total_steps.                                       *)
C4_AllGoodCounts ==
    (pc = "done" /\ AllGood) =>
        /\ Len(outzip) = 5 * SumUsable(Len(uploaded_files))
        /\ total_steps = 5 * SumUsable(Len(uploaded_files))
        /\ step = total_steps

\* Two good documents, the first with more pages than the page cap, the
\* second the 2-page document of the specification's scenario (its 10 entries).
C4_Witness ==
    /\ pc = "done" /\ AllGood
    /\ Len(uploaded_files) = 2
    /\ docs[1].pages > MAX_PAGES_PER_FILE
    /\ docs[2].pages = 2
    /\ Cardinality({k \in DOMAIN outzip : outzip[k].file = 2}) = 10
    /\ Len(outzip) = 20 /\ total_steps = 20 /\ step = 20

(* C5: every encrypted document of the batch is rejected with exactly one   *)
(* skipped-encrypted message, and none of its pages is loaded, rasterized   *)
(* or archived; so a batch of one encrypted document ends with one such     *)
(* message, the batch-empty message and no archive.                          *)
C5_EncryptedSignalled ==
    Terminal =>
        \A f \in DOMAIN docs : docs[f].kind = "encrypted" =>
            /\ Cardinality({k \in DOMAIN report : report[k] = Signal("encrypted", f, 0)}) = 1
            /\ \A k \in DOMAIN calls : calls[k].file # f
            /\ \A k \in DOMAIN outzip : outzip[k].file # f
            /\ (Len(docs) = 1 => (pc = "stopped" /\ ~download /\ outzip = <<>>))

(* C9: within a page the entries are appended in the order Common,          *)
(* Protanopia, Deuteranopia, Tritanopia, Achromat, and all entries of a     *)
(* page are written before any entry of the next page (the entries of one   *)
(* page are contiguous in the archive).                                      *)
C9_VariantOrder ==
    \A k \in DOMAIN outzip : \A l \in DOMAIN outzip :
        (k < l /\ outzip[k].file = outzip[l].file /\ outzip[k].page = outzip[l].page)
            => /\ OrderIdx(outzip[k].dir) < OrderIdx(outzip[l].dir)
               /\ \A m \in k..l : /\ outzip[m].file = outzip[k].file
                                  /\ outzip[m].page = outzip[k].page

\* A page with its five entries, followed by the first entries of the next page.
C9_Witness ==
    /\ Len(outzip) = 7
    /\ HasFive(1, 1)
    /\ outzip[6].page = 2 /\ outzip[7].page = 2 /\ outzip[7].dir = "protanopia"

(* C10: when the counting pass ends with total_steps = 0 the batch stops at *)
(* once: the no-processable-input message is shown, no document is opened   *)
(* for processing, no page is loaded or rasterized, no entry is written and *)
(* no archive is offered.                                                    *)
C10_EmptyBatchStops ==
    (uploaded_files # <<>> /\ pc \notin {"start", "count"} /\ total_steps = 0) =>
        /\ pc = "stopped"
        /\ report # <<>> /\ report[Len(report)] = Signal("batch_empty", 0, 0)
        /\ \A k \in DOMAIN handles : handles[k].pass = "count"
        /\ calls = <<>>
        /\ outzip = <<>>
        /\ ~download

\* A batch of an encrypted document and a document without pages has stopped.
C10_Witness ==
    /\ pc = "stopped"
    /\ Len(docs) = 2
    /\ docs[1].kind = "encrypted"
    /\ docs[2] = [kind |-> "ok", pages |-> 0]
    /\ report[Len(report)].kind = "batch_empty"

(* ======================= properties of the admission =================== *)
Warnings == Cardinality({k \in DOMAIN report : report[k].kind = "too_many_files"})
KeptFirst == uploaded_files = SubSeq(submitted, 1, Min(Len(submitted), MAX_FILES))

(* C8 as stated: the first max_files documents are kept in their order and  *)
(* one warning is emitted for each dropped document (n - max_files          *)
(* warnings); with at most max_files documents all are kept, no warning.    *)
C8_WarningPerDropped ==
    pc # "start" =>
        /\ KeptFirst
        /\ Warnings = Max(0, Len(submitted) - MAX_FILES)

(* C8 amended: the first max_files documents are kept in their order and    *)
(* exactly one warning is emitted for the whole batch, however many         *)
(* documents are dropped; with at most max_files documents all are kept     *)
(* and no warning is emitted.                                                *)
C8_OneWarning ==
    pc # "start" =>
        /\ KeptFirst
        /\ Warnings = (IF Len(submitted) > MAX_FILES THEN 1 ELSE 0)
        /\ (Len(submitted) <= MAX_FILES => uploaded_files = submitted)

\* Two documents more than max_files were uploaded, with different names at
\* both ends: the first max_files are kept and one warning was emitted.
C8_Witness ==
    /\ pc = "count"
    /\ Len(submitted) = MAX_FILES + 2
    /\ submitted[1] # submitted[Len(submitted)]
    /\ submitted[1] # submitted[2]
    /\ Len(uploaded_files) = MAX_FILES
    /\ Warnings = 1

(* ======================= properties of the helpers ===================== *)
AllAllowed(s) == \A k \in 1..Len(s) : IsAllowedChar(s[k])

C6_PixelCeiling ==
    pc = "return" =>
        FloorMul(sc_in.w, sc_out) * FloorMul(sc_in.h, sc_out) <= MAX_PIXELS_PER_PAGE

ScaleEq(a, b) == a.num * b.den = b.num * a.den
ScaleLess(a, b) == a.num * b.den < b.num * a.den
\* The requested scale: the slider value after clamp_scale.
Requested == ScaleOfTenths(clamp_scale(sc_in.scale_in))

(* C11: for every page size and every requested scale (after clamp_scale),  *)
(* the effective render scale is never below min_scale, never above the     *)
(* requested scale, never above max_scale and never zero: the pixel-ceiling *)
(* step only reduces the scale.                                              *)
C11_ScaleInRange ==
    pc = "return" =>
        /\ ~ScaleLess(sc_out, ScaleOfTenths(MIN_SCALE))
        /\ ~ScaleLess(Requested, sc_out)
        /\ ~ScaleLess(ScaleOfTenths(MAX_SCALE), sc_out)
        /\ sc_out.num > 0 /\ sc_out.den > 0

\* A page whose reduced scale lies strictly between min_scale and the
\* requested scale, for a slider value above max_scale.
C11_Witness ==
    /\ pc = "return"
    /\ sc_in.scale_in > MAX_SCALE
    /\ ScaleLess(sc_out, Requested)
    /\ ScaleLess(ScaleOfTenths(MIN_SCALE), sc_out)

(* C18: when est_w * est_h, with est_w = max(1, floor(width * requested))   *)
(* and est_h = max(1, floor(height * requested)), is at most                *)
(* max_pixels_per_page, the effective scale is the requested scale itself.  *)
C18_AdmissibleUnchanged ==
    pc = "return" =>
        LET t == clamp_scale(sc_in.scale_in)
            fw == (sc_in.w * t) \div Tenths
            fh == (sc_in.h * t) \div Tenths
            est_w == IF fw >= 1 THEN fw ELSE 1
            est_h == IF fh >= 1 THEN fh ELSE 1
        IN  est_w * est_h <= MAX_PIXELS_PER_PAGE => sc_out = ScaleOfTenths(t)

\* A page whose area in points is above the ceiling but whose estimate at
\* the requested scale is not, and one whose estimate is exactly the ceiling.
C18_Witness ==
    /\ pc = "return"
    /\ sc_in.w * sc_in.h > MAX_PIXELS_PER_PAGE
    /\ ((sc_in.w * clamp_scale(sc_in.scale_in)) \div Tenths)
         * ((sc_in.h * clamp_scale(sc_in.scale_in)) \div Tenths) = MAX_PIXELS_PER_PAGE
    /\ clamp_scale(sc_in.scale_in) < MAX_SCALE
    /\ ScaleEq(sc_out, Requested)

(* C7: for every byte triple (r,g,b), convert_image with mode 'Acromat'     *)
(* gives (m,m,m) with m = round((r+g+b)/3), the mean rounded to the nearest *)
(* integer.                                                                  *)
C7_RoundedMean ==
    pc = "return" =>
        LET sum == px_in[1] + px_in[2] + px_in[3]
            m == IF 2 * (sum % 3) > 3 THEN (sum \div 3) + 1 ELSE sum \div 3
        IN  px_out = <<m, m, m>>

(* C12: in every reachable state of a batch the number of completed steps is *)
(* between 0 and total_steps, no step of the batch lowers it, and            *)
(* total_steps changes only in the counting pass, before any page is loaded  *)
(* or written; page failures and skipped documents included.                 *)
C12_ProgressBounded ==
    /\ [](0 <= step /\ step <= total_steps)
    /\ [][/\ step' >= step
          /\ total_steps' # total_steps =>
                 /\ pc = "count" /\ pc' = "count"
                 /\ step = 0 /\ outzip = <<>> /\ calls = <<>>]_vars

C12_Witness ==
    /\ pc = "done"
    /\ AnyPageFailed
    /\ \E k \in DOMAIN report : report[k].kind \in {"bad_ext", "unreadable", "encrypted"}
    /\ 0 < step /\ step < total_steps

RECURSIVE SumAdmitted(_)
SumAdmitted(n) ==
    IF n = 0 THEN 0
    ELSE (IF Admitted(n) THEN Usable(n) ELSE 0) + SumAdmitted(n - 1)

(* C16: once the counting pass is over, total_steps is 5 x the sum of        *)
(* min(page_count, max_pages_per_file) over the documents the processing     *)
(* loop admits; a document it rejects (wrong extension, unreadable,          *)
(* encrypted) contributes nothing.                                           *)
C16_CountsAdmittedOnly ==
    pc \notin {"start", "count"} =>
        total_steps = 5 * SumAdmitted(Len(docs))

\* The positions in the call log of the doc.load_page calls of file f.
Loads(f) == {k \in DOMAIN calls : calls[k].op = "load_page" /\ calls[k].file = f}

(* C17: for every admitted document exactly the pages                        *)
(* 1..min(page_count, max_pages_per_file) are attempted, each once and in    *)
(* ascending order: only admitted documents have pages loaded, no page       *)
(* beyond the cap is loaded, a later load of a document is of a higher page, *)
(* at the end of the batch every usable page of every admitted document was  *)
(* loaded, and every archive entry's page number is in that range.           *)
C17_PagesOnceAscending ==
    /\ \A f \in DOMAIN docs :
        /\ Loads(f) # {} => Admitted(f)
        /\ \A k \in Loads(f) :
            /\ calls[k].page + 1 \in 1..Usable(f)
            /\ calls[k].page + 1 <= MAX_PAGES_PER_FILE
            /\ \A l \in Loads(f) : k < l => calls[k].page < calls[l].page
        /\ (pc = "done" /\ Admitted(f)) =>
               \A p \in 1..Usable(f) : \E k \in Loads(f) : calls[k].page + 1 = p
    /\ \A k \in DOMAIN outzip :
        /\ Admitted(outzip[k].file)
        /\ outzip[k].page \in 1..Usable(outzip[k].file)

C17_Witness ==
    /\ pc = "done"
    /\ \E f \in DOMAIN docs :
        /\ Admitted(f)
        /\ docs[f].pages > MAX_PAGES_PER_FILE
        /\ Cardinality(Loads(f)) = MAX_PAGES_PER_FILE
        /\ PageFailed(f, 1)
        /\ EntriesOf(f, MAX_PAGES_PER_FILE) # {}

\* The documents the processing loop skips at lines 184-204.
SkipKinds == {"bad_ext", "unreadable", "encrypted"}
Rejected(f) ==
    ~ExtAllowed(uploaded_files[f]) \/ docs[f].kind \in {"unreadable", "encrypted"}
OpenedIn(f, pass) == \E k \in DOMAIN handles : handles[k].file = f /\ handles[k].pass = pass

(* C14: a rejected (wrong extension), unreadable or encrypted document is    *)
(* skipped and the batch continues.  The step that reports the skip goes on  *)
(* to the next document of the batch and leaves the archive alone; and at    *)
(* the end of the run every admitted document that follows a skipped one     *)
(* was opened, was opened by the processing loop when it has a usable page,  *)
(* and had every usable page attempted, with all five entries for each page  *)
(* that did not fail itself.                                                 *)
C14_SkipContinues ==
    /\ [][(Len(report') > Len(report) /\ report'[Len(report')].kind \in SkipKinds) =>
              /\ pc = "main" /\ pc' = "main"
              /\ cur' = cur + 1
              /\ report'[Len(report')].file = cur
              /\ outzip' = outzip /\ step' = step]_vars
    /\ [](Terminal =>
            \A f, g \in DOMAIN docs :
                (f < g /\ Rejected(f) /\ Admitted(g)) =>
                    /\ OpenedIn(g, "count") \/ OpenedIn(g, "main")
                    /\ Usable(g) >= 1 => OpenedIn(g, "main")
                    /\ \A p \in 1..Usable(g) :
                        /\ \E k \in Loads(g) : calls[k].page + 1 = p
                        /\ ~PageFailed(g, p) => HasFive(g, p))

C14_Witness ==
    /\ pc = "done"
    /\ Len(docs) = 2
    /\ docs[1].kind = "encrypted" /\ ExtAllowed(uploaded_files[1])
    /\ OpenedIn(1, "main")
    /\ \E k \in DOMAIN report : report[k] = Signal("encrypted", 1, 0)
    /\ Admitted(2) /\ Usable(2) = MAX_PAGES_PER_FILE
    /\ PageFailed(2, 1)
    /\ HasFive(2, MAX_PAGES_PER_FILE)

\* Two archive entries with the same path.
SamePath(d, e) == d.dir = e.dir /\ d.name = e.name /\ d.page = e.page

(* C15: the archive is append-only and keeps insertion order.  A step that   *)
(* changes it adds one entry behind the ones already there, which stay as    *)
(* they are; the number of entries is the number of writes made; and when    *)
(* two different documents sanitize to the same name, the finished archive   *)
(* holds the five entries of both for every page neither of them failed on.  *)
C15_AppendOnly ==
    /\ [][outzip' # outzip =>
              /\ Len(outzip') = Len(outzip) + 1
              /\ SubSeq(outzip', 1, Len(outzip)) = outzip
              /\ step' = step + 1]_vars
    /\ [](Len(outzip) = step)
    /\ [](pc = "done" =>
            \A f, g \in DOMAIN docs :
                (/\ f # g /\ Admitted(f) /\ Admitted(g)
                 /\ sanitize_filename(uploaded_files[f]) = sanitize_filename(uploaded_files[g])) =>
                    \A p \in 1..Min(Usable(f), Usable(g)) :
                        (~PageFailed(f, p) /\ ~PageFailed(g, p)) =>
                            /\ HasFive(f, p) /\ HasFive(g, p)
                            /\ EntriesOf(f, p) \cap EntriesOf(g, p) = {})

C15_Witness ==
    /\ pc = "done"
    /\ uploaded_files = <<PlainName, TraversalName>>
    /\ \E k, l \in DOMAIN outzip :
        /\ k < l
        /\ SamePath(outzip[k], outzip[l])
        /\ outzip[k].file = 1 /\ outzip[l].file = 2
    /\ Len(outzip) = 5 * (Usable(1) + Usable(2))
    /\ Cardinality({<<outzip[k].dir, outzip[k].name, outzip[k].page>> : k \in DOMAIN outzip})
           < Len(outzip)

(* C19: in every reachable state the entries already written for one         *)
(* (document, page) are the first entries of the order Common, Protanopia,   *)
(* Deuteranopia, Tritanopia, Achromat, written in that order; the step       *)
(* counter equals the number of entries written so far; the step on which a  *)
(* page fails removes nothing from the archive or the counter, and a failed  *)
(* page has between 0 and 4 entries.                                         *)
C19_PrefixPerPage ==
    /\ [](/\ step = Len(outzip)
          /\ \A f \in DOMAIN docs : \A p \in 1..MaxPageCount + 1 :
                /\ Cardinality(EntriesOf(f, p)) <= 5
                /\ \A k \in EntriesOf(f, p) :
                       outzip[k].dir =
                           StatedOrder[Cardinality({l \in EntriesOf(f, p) : l <= k})]
                /\ PageFailed(f, p) => Cardinality(EntriesOf(f, p)) \in 0..4)
    /\ [][(Len(report') > Len(report) /\ report'[Len(report')].kind = "page_failed") =>
              /\ outzip' = outzip
              /\ step' = step
              /\ Cardinality(EntriesOf(cur, page_num + 1)) = variant]_vars

C19_Witness ==
    /\ pc = "done"
    /\ \E f \in DOMAIN docs :
        /\ PageFailed(f, 1)
        /\ Cardinality(EntriesOf(f, 1)) = 2
        /\ \E k, l \in EntriesOf(f, 1) :
               k < l /\ outzip[k].dir = "common" /\ outzip[l].dir = "protanopia"
        /\ Usable(f) = MAX_PAGES_PER_FILE
        /\ HasFive(f, MAX_PAGES_PER_FILE)
    /\ step = Len(outzip) /\ step = 7

Deficiencies == {"protanopia", "deuteranopia", "tritanopia"}
Converts == {k \in DOMAIN calls : calls[k].op = "convert_image"}

(* C20: no run of the batch pipeline reaches the pass-through branch of      *)
(* simulate_deficiency.  Every convert_image call of the pipeline has one of *)
(* the modes protanopia, deuteranopia, tritanopia, Acromat; the call is      *)
(* handed on to simulate_deficiency exactly for the first three, which have  *)
(* a branch of their own, and Acromat takes the mean branch of               *)
(* convert_image; so an entry under a deficiency directory was produced by   *)
(* the branch of that deficiency, an entry under achromat by the mean, and   *)
(* no entry by the fallback.                                                 *)
C20_NoPassThrough ==
    /\ \A k \in Converts :
        /\ calls[k].mode \in Deficiencies \cup {"Acromat"}
        /\ ConvertBranch(calls[k].mode) # "passthrough"
        /\ calls[k].mode # "Acromat" =>
               /\ calls[k].mode \in Deficiencies
               /\ SimulateBranch(calls[k].mode) = calls[k].mode
        /\ calls[k].mode = "Acromat" => ConvertBranch(calls[k].mode) = "mean"
    /\ \A k \in DOMAIN outzip :
        /\ outzip[k].via # "passthrough"
        /\ outzip[k].dir \in Deficiencies => outzip[k].via = outzip[k].dir
        /\ outzip[k].dir = "achromat" <=> outzip[k].via = "mean"
        /\ outzip[k].dir = "common" <=> outzip[k].via = "render"

C20_Witness ==
    /\ pc = "done"
    /\ \A m \in Deficiencies \cup {"Acromat"} : \E k \in Converts : calls[k].mode = m
    /\ \A d \in Deficiencies : \E k \in DOMAIN outzip : outzip[k].dir = d /\ outzip[k].via = d
    /\ \E k \in DOMAIN outzip : outzip[k].dir = "achromat" /\ outzip[k].via = "mean"
    /\ AnyPageFailed

\* The place of the first "/" of a member name (0 when there is none).
FirstSlash(path) ==
    IF "/" \in Range(path)
    THEN CHOOSE i \in 1..Len(path) :
             path[i] = "/" /\ \A j \in 1..(i - 1) : path[j] # "/"
    ELSE 0

(* C13: for every uploaded name, every member name the pipeline builds from  *)
(* its sanitized form, for each of the five variants and any page, is        *)
(* variant_dir/file:                                                         *)
(* the part before the first "/" is one of common, protanopia, deuteranopia, *)
(* tritanopia, achromat, and the rest is the sanitized name followed by      *)
(* _p<page>.png, holds no "/" and no "\", and is neither "." nor "..".       *)
C13_EntryStaysInDir ==
    pc = "return" =>
        \A k \in 1..5 : \A pn \in 0..MaxPageCount :
            LET path == EntryPath(VariantDirs[k], san_out, pn)
                i == FirstSlash(path)
                file == SubSeq(path, i + 1, Len(path))
            IN  /\ i > 0
                /\ SubSeq(path, 1, i - 1) = DirChars(StatedOrder[k])
                /\ file = san_out \o <<"_", "p">> \o Decimal(pn + 1) \o <<".", "p", "n", "g">>
                /\ "/" \notin Range(file)
                /\ "\\" \notin Range(file)
                /\ file \notin {<<>>, <<".">>, <<".", ".">>}
                /\ \A j \in 1..(Len(file) - 1) : ~(file[j] = "." /\ file[j + 1] = "/")

\* The name "a/..", whose last component is "..", sanitized and put in a
\* member name.
C13_Witness ==
    /\ pc = "return"
    /\ san_in = <<"a", "/", ".", ".">>
    /\ san_out = <<".", ".", ".", "p", "d", "f">>
    /\ EntryPath("achromat", san_out, 0) =
           <<"a", "c", "h", "r", "o", "m", "a", "t", "/", ".", ".", ".", "p", "d", "f",
             "_", "p", "1", ".", "p", "n", "g">>

\* Sanity of the positions: the script can step exactly where a step exists.
PositionsAreEnabledness == CanStep <=> ENABLED Next

====
